---------------------------- MODULE Spec2Model ----------------------------
(***************************************************************************)
(* A model of scrabble.py: the Loader (load_csw, load_nwl, create_merged,  *)
(* load_merged) and the Scrabble table (load_zyzzyva_lexicon,              *)
(* merge_lexicons, add_points, match, match_rack).                         *)
(*                                                                         *)
(* A Python str is a sequence of one-character strings, so that strip,     *)
(* split, upper, Counter and the regular expression act on characters.     *)
(* A Python value is a tagged record, so that None, NaN, a str, an int, a  *)
(* bool and a list are all comparable with each other.                     *)
(***************************************************************************)
EXTENDS Integers, Sequences, FiniteSets, TLC

VARIABLES
    cswFile,   \* the file at Loader.CSW_PATH (environment, fixed in a run)
    nwlFile,   \* the file at Loader.NWL_PATH (environment, fixed in a run)
    CSW,       \* Loader.CSW
    NWL,       \* Loader.NWL
    data,      \* Loader.data
    df,        \* a Scrabble table held by the caller (scrabble_df)
    pattern,   \* the pattern string the caller queries with
    ret,       \* the value returned by the last call
    op,        \* the last call
    err        \* the exception the last call raised, "none" if it returned

vars == <<cswFile, nwlFile, CSW, NWL, data, df, pattern, ret, op, err>>

----------------------------------------------------------------------------
(* Bounds of the model. *)

\* the longest wordlist file, in lines
MaxLines == 2
\* the longest enumerated pattern string, in characters
MaxPatLen == 3

----------------------------------------------------------------------------
(* Python values. *)

None == [tag |-> "None"]
NaN == [tag |-> "NaN"]
PyStr(s) == [tag |-> "str", s |-> s]
PyInt(n) == [tag |-> "int", n |-> n]
PyBool(b) == [tag |-> "bool", b |-> b]
PyList(l) == [tag |-> "list", l |-> l]

\* pandas: None and NaN are the missing values
isna(v) == v.tag \in {"None", "NaN"}

----------------------------------------------------------------------------
(* Python str operations, on sequences of characters. *)

Whitespace == {" "}

LowerCase == <<"a","b","c","d","e","f","g","h","i","j","k","l","m",
               "n","o","p","q","r","s","t","u","v","w","x","y","z">>
UpperCase == <<"A","B","C","D","E","F","G","H","I","J","K","L","M",
               "N","O","P","Q","R","S","T","U","V","W","X","Y","Z">>

\* str.upper() of one character
upper_char(c) ==
    IF \E i \in 1..Len(LowerCase) : LowerCase[i] = c
    THEN UpperCase[CHOOSE i \in 1..Len(LowerCase) : LowerCase[i] = c]
    ELSE c

\* str.upper()
upper(s) == [i \in 1..Len(s) |-> upper_char(s[i])]

RECURSIVE lstrip(_, _)
lstrip(s, chars) ==
    IF s # <<>> /\ Head(s) \in chars THEN lstrip(Tail(s), chars) ELSE s

RECURSIVE rstrip(_, _)
rstrip(s, chars) ==
    IF s # <<>> /\ s[Len(s)] \in chars
    THEN rstrip(SubSeq(s, 1, Len(s) - 1), chars)
    ELSE s

\* str.strip(chars); str.strip() is strip(s, Whitespace)
strip(s, chars) == rstrip(lstrip(s, chars), chars)

\* c in s
contains(s, c) == \E i \in 1..Len(s) : s[i] = c

\* str.find(c) + 1: the first position of c in s, 0 if there is none
find(s, c) ==
    IF contains(s, c)
    THEN CHOOSE i \in 1..Len(s) : s[i] = c /\ \A j \in 1..(i - 1) : s[j] # c
    ELSE 0

\* str.rfind(c) + 1: the last position of c in s, 0 if there is none
rfind(s, c) ==
    IF contains(s, c)
    THEN CHOOSE i \in 1..Len(s) : s[i] = c /\ \A j \in (i + 1)..Len(s) : s[j] # c
    ELSE 0

\* str.split(c, 1)
split1(s, c) ==
    LET i == find(s, c)
    IN  IF i = 0 THEN <<s>>
        ELSE <<SubSeq(s, 1, i - 1), SubSeq(s, i + 1, Len(s))>>

\* str.rsplit(c, 1)
rsplit1(s, c) ==
    LET i == rfind(s, c)
    IN  IF i = 0 THEN <<s>>
        ELSE <<SubSeq(s, 1, i - 1), SubSeq(s, i + 1, Len(s))>>

\* str.split(c)
RECURSIVE split(_, _)
split(s, c) ==
    LET i == find(s, c)
    IN  IF i = 0 THEN <<s>>
        ELSE <<SubSeq(s, 1, i - 1)>> \o split(SubSeq(s, i + 1, Len(s)), c)

\* str.replace(c, by), c one character
RECURSIVE replace(_, _, _)
replace(s, c, by) ==
    IF s = <<>> THEN <<>>
    ELSE (IF Head(s) = c THEN by ELSE <<Head(s)>>) \o replace(Tail(s), c, by)

\* the characters of the model in code point order, for the order of str
CodePoints == <<" ", "$", "(", "*", ",", ".", "1", "?",
                "A","B","C","D","E","F","G","H","I","J","K","L","M",
                "N","O","P","Q","R","S","T","U","V","W","X","Y","Z",
                "[", "]", "^", "_",
                "a","b","c","d","e","f","g","h","i","j","k","l","m",
                "n","o","p","q","r","s","t","u","v","w","x","y","z",
                "{", "}">>

ord(c) == CHOOSE i \in 1..Len(CodePoints) : CodePoints[i] = c

\* s < t for two str
RECURSIVE str_lt(_, _)
str_lt(s, t) ==
    IF t = <<>> THEN FALSE
    ELSE IF s = <<>> THEN TRUE
    ELSE IF Head(s) = Head(t) THEN str_lt(Tail(s), Tail(t))
    ELSE ord(Head(s)) < ord(Head(t))

----------------------------------------------------------------------------
(* The Scrabble table: a DataFrame indexed by word.  cols is the set of    *)
(* column names, rows the rows in order, each a word (the index value)     *)
(* and a value for every column.                                           *)

Row(word, vals) == [word |-> word, vals |-> vals]

\* Scrabble(DataFrame(rows, columns=cols)): 'word' becomes the index
Scrabble(cols, rows, display_columns) ==
    [tag |-> "Scrabble", cols |-> cols, rows |-> rows,
     display_columns |-> display_columns]

\* cls(): no column, no row
EmptyScrabble == Scrabble({}, <<>>, None)

\* list(self.index)
index(self) == [i \in 1..Len(self.rows) |-> self.rows[i].word]

\* set(self.index)
keys(self) == {self.rows[i].word : i \in 1..Len(self.rows)}

\* the body of the loop of load_zyzzyva_lexicon: the rows one line appends
parse_line(raw) ==
    LET line == strip(raw, Whitespace)
        parts == split1(line, " ")
        word == strip(parts[1], Whitespace)
        bracket == Len(parts) > 1 /\ contains(parts[2], "[") /\ contains(parts[2], "]")
        halves == rsplit1(parts[2], "[")
        forms == split(strip(halves[2], {"[", "]"}), ",")
        definition ==
            IF Len(parts) > 1
            THEN (IF bracket THEN PyStr(halves[1]) ELSE PyStr(strip(parts[2], Whitespace)))
            ELSE None
        forms_list ==
            IF bracket
            THEN [i \in 1..Len(forms) |-> strip(forms[i], Whitespace)]
            ELSE <<>>
    IN  IF line = <<>> THEN <<>>
        ELSE <<Row(word, [c \in {"definition", "forms"} |->
                     IF c = "definition" THEN definition ELSE PyList(forms_list)])>>

RECURSIVE parse_lines(_)
parse_lines(lines) ==
    IF lines = <<>> THEN <<>>
    ELSE parse_line(Head(lines)) \o parse_lines(Tail(lines))

\* Scrabble.load_zyzzyva_lexicon: open() raises on a missing file, and the
\* handler returns cls()
load_zyzzyva_lexicon(file) ==
    IF ~file.exists THEN EmptyScrabble
    ELSE Scrabble({"definition", "forms"}, parse_lines(file.lines), None)

----------------------------------------------------------------------------
(* pd.merge(how='outer', left_index=True, right_index=True,                *)
(*          suffixes=('_csw', '_nwl'), indicator='merge_indicator')       *)

\* the value of the categorical column merge_indicator
Cat(v) == [tag |-> "category", v |-> v]

\* the name a column of one side gets: suffixed when both sides have it
suffixed(c, own, other, suffix) == IF c \in other.cols THEN c \o suffix ELSE c

\* the rows of self whose index value is k, in order
rows_of(self, k) == SelectSeq(self.rows, LAMBDA r : r.word = k)

\* the keys of an outer join, sorted
RECURSIVE sorted(_)
sorted(ks) ==
    IF ks = {} THEN <<>>
    ELSE LET least == CHOOSE k \in ks : \A j \in ks : j = k \/ str_lt(k, j)
         IN  <<least>> \o sorted(ks \ {least})

\* one row of the join: l and r are rows, or None on the side that has none
joined(k, l, r, left, right) ==
    LET lcols == {suffixed(c, left, right, "_csw") : c \in left.cols}
        rcols == {suffixed(c, right, left, "_nwl") : c \in right.cols}
        lsrc(c) == CHOOSE x \in left.cols : suffixed(x, left, right, "_csw") = c
        rsrc(c) == CHOOSE x \in right.cols : suffixed(x, right, left, "_nwl") = c
        indicator ==
            IF l = None THEN Cat("right_only")
            ELSE IF r = None THEN Cat("left_only")
            ELSE Cat("both")
    IN  Row(k, [c \in lcols \cup rcols \cup {"merge_indicator"} |->
                  IF c = "merge_indicator" THEN indicator
                  ELSE IF c \in lcols
                       THEN (IF l = None THEN NaN ELSE l.vals[lsrc(c)])
                       ELSE (IF r = None THEN NaN ELSE r.vals[rsrc(c)])])

\* join_key as a concatenation would have it: the rows of each side apart
join_key_concat(k, left, right) ==
    LET ls == rows_of(left, k)
        rs == rows_of(right, k)
    IN  [i \in 1..Len(ls) |-> joined(k, ls[i], None, left, right)]
        \o [i \in 1..Len(rs) |-> joined(k, None, rs[i], left, right)]

\* the rows of the join for key k: the product of the two sides' rows
join_key(k, left, right) ==
    LET ls == rows_of(left, k)
        rs == rows_of(right, k)
        n == Len(ls) * Len(rs)
    IN  IF ls = <<>> THEN [i \in 1..Len(rs) |-> joined(k, None, rs[i], left, right)]
        ELSE IF rs = <<>> THEN [i \in 1..Len(ls) |-> joined(k, ls[i], None, left, right)]
        ELSE [i \in 1..n |->
                joined(k, ls[((i - 1) \div Len(rs)) + 1], rs[((i - 1) % Len(rs)) + 1],
                       left, right)]

RECURSIVE join_keys(_, _, _)
join_keys(ks, left, right) ==
    IF ks = <<>> THEN <<>>
    ELSE join_key(Head(ks), left, right) \o join_keys(Tail(ks), left, right)

pd_merge(left, right) ==
    [cols |-> {suffixed(c, left, right, "_csw") : c \in left.cols}
              \cup {suffixed(c, right, left, "_nwl") : c \in right.cols}
              \cup {"merge_indicator"},
     rows |-> join_keys(sorted(keys(left) \cup keys(right)), left, right)]

\* combine_first with the sides exchanged: the right value unless missing
combine_first_right(a, b) == IF isna(b) THEN a ELSE b

\* Series.combine_first: the left value unless it is missing
combine_first(a, b) == IF isna(a) THEN b ELSE a

\* coalesced with the two indicator values exchanged
coalesced_swapped(vals) ==
    [c \in ((DOMAIN vals) \ {"definition_csw", "definition_nwl", "merge_indicator"})
           \cup {"definition", "csw_only", "nwl_only"} |->
        CASE c = "definition" ->
                combine_first(vals["definition_csw"], vals["definition_nwl"])
          [] c = "csw_only" -> PyBool(vals["merge_indicator"] = Cat("right_only"))
          [] c = "nwl_only" -> PyBool(vals["merge_indicator"] = Cat("left_only"))
          [] OTHER -> vals[c]]

\* the columns merge_lexicons computes from the row of the join
coalesced(vals) ==
    [c \in ((DOMAIN vals) \ {"definition_csw", "definition_nwl", "merge_indicator"})
           \cup {"definition", "csw_only", "nwl_only"} |->
        CASE c = "definition" ->
                combine_first(vals["definition_csw"], vals["definition_nwl"])
          [] c = "csw_only" -> PyBool(vals["merge_indicator"] = Cat("left_only"))
          [] c = "nwl_only" -> PyBool(vals["merge_indicator"] = Cat("right_only"))
          [] OTHER -> vals[c]]

\* Scrabble.merge_lexicons: [exc, value]; merged_df['definition_csw'] raises
\* KeyError when the two sides do not both have a definition column
merge_lexicons(csw_lexicon, nwl_lexicon) ==
    LET merged_df == pd_merge(csw_lexicon, nwl_lexicon)
    IN  IF ~({"definition_csw", "definition_nwl"} \subseteq merged_df.cols)
        THEN [exc |-> "KeyError", value |-> None]
        ELSE [exc |-> "none",
              value |-> Scrabble(
                  (merged_df.cols \ {"definition_csw", "definition_nwl", "merge_indicator"})
                      \cup {"definition", "csw_only", "nwl_only"},
                  [i \in 1..Len(merged_df.rows) |->
                      Row(merged_df.rows[i].word, coalesced(merged_df.rows[i].vals))],
                  None)]

----------------------------------------------------------------------------
(* The Loader. *)

\* Loader.__init__
Loader_init == CSW = None /\ NWL = None /\ data = None

\* Loader.load_csw: load_zyzzyva_lexicon handles its own exceptions, so the
\* handler of load_csw that assigns None never runs
load_csw ==
    /\ CSW' = load_zyzzyva_lexicon(cswFile)
    /\ ret' = CSW'
    /\ op' = "load_csw"
    /\ err' = "none"
    /\ UNCHANGED <<cswFile, nwlFile, NWL, data, df, pattern>>

\* Loader.load_nwl
load_nwl ==
    /\ NWL' = load_zyzzyva_lexicon(nwlFile)
    /\ ret' = NWL'
    /\ op' = "load_nwl"
    /\ err' = "none"
    /\ UNCHANGED <<cswFile, nwlFile, CSW, data, df, pattern>>

\* the body of Loader.create_merged on the lexicons csw and nwl:
\* [exc, data, ret]
create_merged_on(csw, nwl, old) ==
    IF csw = None \/ nwl = None
    THEN [exc |-> "ValueError", data |-> old, ret |-> None]
    ELSE LET m == merge_lexicons(csw, nwl)
         IN  IF m.exc # "none"
             THEN [exc |-> m.exc, data |-> old, ret |-> None]
             ELSE [exc |-> "none", data |-> m.value, ret |-> m.value]

\* Loader.create_merged
create_merged ==
    LET r == create_merged_on(CSW, NWL, data)
    IN  /\ data' = r.data
        /\ ret' = r.ret
        /\ err' = r.exc
        /\ op' = "create_merged"
        /\ UNCHANGED <<cswFile, nwlFile, CSW, NWL, df, pattern>>

\* Loader.load_merged: load_csw(), load_nwl(), create_merged()
load_merged ==
    LET csw == load_zyzzyva_lexicon(cswFile)
        nwl == load_zyzzyva_lexicon(nwlFile)
        r == create_merged_on(csw, nwl, data)
    IN  /\ CSW' = csw
        /\ NWL' = nwl
        /\ data' = r.data
        /\ ret' = r.ret
        /\ err' = r.exc
        /\ op' = "load_merged"
        /\ UNCHANGED <<cswFile, nwlFile, df, pattern>>

----------------------------------------------------------------------------
(* Scrabble.add_points *)

POINTS_EN ==
    "A" :> 1 @@ "B" :> 3 @@ "C" :> 3 @@ "D" :> 2 @@ "E" :> 1 @@ "F" :> 4 @@
    "G" :> 2 @@ "H" :> 4 @@ "I" :> 1 @@ "J" :> 8 @@ "K" :> 5 @@ "L" :> 1 @@
    "M" :> 3 @@ "N" :> 1 @@ "O" :> 1 @@ "P" :> 3 @@ "Q" :> 10 @@ "R" :> 1 @@
    "S" :> 1 @@ "T" :> 1 @@ "U" :> 1 @@ "V" :> 4 @@ "W" :> 4 @@ "X" :> 8 @@
    "Y" :> 4 @@ "Z" :> 10 @@ "?" :> 0

\* char_points without the upper(): POINTS_EN.get(char, 0)
char_points_cased(char) ==
    IF char \in DOMAIN POINTS_EN THEN POINTS_EN[char] ELSE 0

\* POINTS_EN.get(char.upper(), 0)
char_points(char) ==
    IF upper_char(char) \in DOMAIN POINTS_EN THEN POINTS_EN[upper_char(char)] ELSE 0

\* calculate_points
RECURSIVE calculate_points(_)
calculate_points(word) ==
    IF word = <<>> THEN 0
    ELSE char_points(Head(word)) + calculate_points(Tail(word))

\* Scrabble.add_points: self['points'] = self.index.map(calculate_points)
add_points(self) ==
    [self EXCEPT
        !.cols = @ \cup {"points"},
        !.rows = [i \in 1..Len(self.rows) |->
                    Row(self.rows[i].word,
                        [c \in self.cols \cup {"points"} |->
                            IF c = "points"
                            THEN PyInt(calculate_points(self.rows[i].word))
                            ELSE self.rows[i].vals[c]])]]

----------------------------------------------------------------------------
(* re.compile and re.match, for the patterns of the model: literals, '.',  *)
(* '^', '$', the repeats '?', '*' and '{1}', and '(' (never closed, as     *)
(* the model's patterns hold no ')').                                      *)

Item(kind, ch) == [kind |-> kind, ch |-> ch, min |-> 1, max |-> 1, repeat |-> FALSE]

\* the parse of p from position i on, items the items parsed so far:
\* [exc, items]
RECURSIVE re_parse(_, _, _)
re_parse(p, i, items) ==
    IF i > Len(p) THEN [exc |-> "none", items |-> items]
    ELSE
    LET this == p[i]
        braces == this = "{" /\ i + 2 <= Len(p) /\ p[i + 1] = "1" /\ p[i + 2] = "}"
        isRepeat == this \in {"?", "*"} \/ braces
        after == IF braces THEN i + 3 ELSE i + 1
        \* a '?' after the repeat makes it lazy, and is part of it
        next == IF after <= Len(p) /\ p[after] = "?" THEN after + 1 ELSE after
        last == items[Len(items)]
        min == IF this \in {"?", "*"} THEN 0 ELSE 1
        max == IF this = "*" THEN -1 ELSE 1
    IN  IF this = "(" THEN [exc |-> "re.error", items |-> <<>>]
        ELSE IF isRepeat
        THEN IF items = <<>> \/ last.kind \in {"at_beginning", "at_end"}
             THEN [exc |-> "re.error", items |-> <<>>]   \* nothing to repeat
             ELSE IF last.repeat
             THEN [exc |-> "re.error", items |-> <<>>]   \* multiple repeat
             ELSE re_parse(p, next,
                           [items EXCEPT ![Len(items)] =
                               [last EXCEPT !.min = min, !.max = max, !.repeat = TRUE]])
        ELSE re_parse(p, i + 1,
                      Append(items,
                             CASE this = "." -> Item("any", this)
                               [] this = "^" -> Item("at_beginning", this)
                               [] this = "$" -> Item("at_end", this)
                               [] OTHER -> Item("literal", this)))

\* re.compile(p)
re_compile(p) == re_parse(p, 1, <<>>)

\* whether one item matches one character
item_matches(item, c) ==
    IF item.kind = "any" THEN c # "\n" ELSE item.kind = "literal" /\ c = item.ch

\* whether items k.. match string from position pos on (a backtracking match)
RECURSIVE re_match_from(_, _, _, _)
re_match_from(items, k, string, pos) ==
    IF k > Len(items) THEN TRUE
    ELSE
    LET item == items[k]
        most == IF item.max = -1 THEN Len(string) - pos + 1 ELSE item.max
    IN  CASE item.kind = "at_beginning" ->
                pos = 1 /\ re_match_from(items, k + 1, string, pos)
          [] item.kind = "at_end" ->
                /\ \/ pos = Len(string) + 1
                   \/ pos = Len(string) /\ string[pos] = "\n"
                /\ re_match_from(items, k + 1, string, pos)
          [] OTHER ->
                \E n \in item.min..most :
                    /\ pos + n - 1 <= Len(string)
                    /\ \A j \in 0..(n - 1) : item_matches(item, string[pos + j])
                    /\ re_match_from(items, k + 1, string, pos + n)

\* compiled.match(string) is not None
re_match(items, string) == re_match_from(items, 1, string, 1)

----------------------------------------------------------------------------
(* Scrabble.match and Scrabble.match_rack *)

\* the rows a boolean mask keeps
RECURSIVE masked(_, _)
masked(rows, mask) ==
    IF rows = <<>> THEN <<>>
    ELSE (IF Head(mask) THEN <<Head(rows)>> ELSE <<>>) \o masked(Tail(rows), Tail(mask))

\* self[mask]: the rows the mask keeps, with the columns and the metadata
\* (display_columns) of self
getitem(self, mask) == [self EXCEPT !.rows = masked(self.rows, mask)]

\* collections.Counter(s)
Counter(s) ==
    [c \in {s[i] : i \in 1..Len(s)} |-> Cardinality({i \in 1..Len(s) : s[i] = c})]

\* Counter.get(c, 0)
counter_get(counter, c) == IF c \in DOMAIN counter THEN counter[c] ELSE 0

\* Counter - Counter: only the positive counts are kept
counter_sub(a, b) ==
    [c \in {x \in DOMAIN a : a[x] - counter_get(b, x) > 0} |-> a[c] - counter_get(b, c)]

\* sum(counter.values())
RECURSIVE sum_values(_)
sum_values(counter) ==
    IF DOMAIN counter = {} THEN 0
    ELSE LET c == CHOOSE x \in DOMAIN counter : TRUE
         IN  counter[c] + sum_values([x \in (DOMAIN counter) \ {c} |-> counter[x]])

\* can_form with < for <=: one blank is never used
can_form_strict(word, rack_counter) ==
    LET word_counter == Counter(upper(word))
        deficit == counter_sub(word_counter, rack_counter)
    IN  sum_values(deficit) < counter_get(rack_counter, "?")

\* can_form of match_rack
can_form(word, rack_counter) ==
    LET word_counter == Counter(upper(word))
        deficit == counter_sub(word_counter, rack_counter)
    IN  sum_values(deficit) <= counter_get(rack_counter, "?")

\* match_rack that uppercases the index of what it returns
match_rack_upper(self, rack) ==
    LET rack_counter == Counter(upper(rack))
        kept == masked(self.rows, [i \in 1..Len(self.rows) |->
                                      can_form(self.rows[i].word, rack_counter)])
    IN  [self EXCEPT !.rows = [i \in 1..Len(kept) |->
                                  Row(upper(kept[i].word), kept[i].vals)]]

\* Scrabble.match_rack
match_rack(self, rack) ==
    LET rack_counter == Counter(upper(rack))
    IN  getitem(self, [i \in 1..Len(self.rows) |->
                          can_form(self.rows[i].word, rack_counter)])

\* scrabble_regex without the '$' that anchors the end
scrabble_regex_open(pat) ==
    <<"^">> \o upper(replace(pat, "_", <<".", "{", "1", "}">>))

\* the regular expression match builds from a pattern with '_'
scrabble_regex(pat) ==
    <<"^">> \o upper(replace(pat, "_", <<".", "{", "1", "}">>)) \o <<"$">>

\* Scrabble.match: [exc, ret, self], self the table after the call.
\* re.compile(pattern) is tried first and its re.error is passed over;
\* with '_' the index is matched against the built regular expression,
\* whose re.error is not handled
match(self, pat) ==
    LET tried == re_compile(pat)
        compiled == re_compile(scrabble_regex(pat))
        mask == [i \in 1..Len(self.rows) |-> re_match(compiled.items, self.rows[i].word)]
    IN  IF tried.exc \notin {"none", "re.error"}
        THEN [exc |-> tried.exc, ret |-> None, self |-> self]
        ELSE IF contains(pat, "_")
        THEN IF compiled.exc # "none"
             THEN [exc |-> compiled.exc, ret |-> None, self |-> self]
             ELSE [exc |-> "none", ret |-> getitem(self, mask), self |-> self]
        ELSE [exc |-> "none", ret |-> match_rack(self, pat), self |-> self]

----------------------------------------------------------------------------
(* Calls of the Scrabble methods.  df is the table the method is called    *)
(* on, pattern the argument of match, ret what the call returned.          *)

\* ret = t.match(pat)
call_match(t, pat) ==
    LET r == match(t, pat)
    IN  /\ df' = r.self
        /\ pattern' = pat
        /\ ret' = r.ret
        /\ err' = r.exc
        /\ op' = "match"
        /\ UNCHANGED <<cswFile, nwlFile, CSW, NWL, data>>

\* scrabble_df.match(pattern)
match_df == call_match(df, pattern)

\* scrabble_df.add_points()
add_points_df ==
    /\ df' = add_points(df)
    /\ ret' = None
    /\ err' = "none"
    /\ op' = "add_points"
    /\ UNCHANGED <<cswFile, nwlFile, CSW, NWL, data, pattern>>

----------------------------------------------------------------------------
(* The wordlist files, the tables and the patterns of the model. *)

File(lines) == [exists |-> TRUE, lines |-> lines]
MissingFile == [exists |-> FALSE, lines |-> <<>>]

\* the sequences over S of length at most n
SeqsUpTo(S, n) == UNION {[1..k -> S] : k \in 0..n}

\* the lines of the file at CSW_PATH: a word alone, the word with a
\* definition, another word
CswLines ==
    { <<"A">>,
      <<"A", " ", "x">>,
      <<"D", " ", "w">> }

\* the lines of the file at NWL_PATH: a blank line, the word of the other
\* file with another definition, a word with a forms list
NwlLines ==
    { <<" ">>,
      <<"A", " ", "z">>,
      <<"B", " ", "[", "f", "]">> }

CswFiles == {File(l) : l \in SeqsUpTo(CswLines, MaxLines)} \cup {MissingFile}
NwlFiles == {File(l) : l \in SeqsUpTo(NwlLines, MaxLines)} \cup {MissingFile}

\* the patterns the loaded lexicons are queried with
LoaderQueries == { <<"A", "?">>, <<"_">> }

\* the lines of the files the queried tables are built from
TableLines ==
    { <<"A">>,
      <<"a", "b", " ", "[", "f", ",", " ", "g", "]">>,
      <<"B", "A", "B", " ", " ", "y", " ", "[", "f", "]">> }

\* the lexicons of the examples
RackFile == File(<< <<"C","A","T">>, <<"C","A","B">>, <<"D","O","G">> >>)
BatFile == File(<< <<"B","A","T">> >>)
FixedFile == File(<< <<"B","O","A","T">>, <<"O","A","T","S">>, <<"R","O","O","M">> >>)
RegexFile == File(<< <<"A","Z">>, <<"A","B","Z", " ", "x">>, <<"A">>, <<"Z","A">> >>)
PointsFile == File(<< <<"C","A","T", " ", "x">>, <<"c","a",".","t">> >>)

ExampleFiles == {RackFile, BatFile, FixedFile, RegexFile, PointsFile}

TableFiles == {File(l) : l \in SeqsUpTo(TableLines, MaxLines)} \cup ExampleFiles

\* the tables a caller queries: built from a file, or merged from two
TableInit ==
    {load_zyzzyva_lexicon(f) : f \in TableFiles}
    \cup {merge_lexicons(load_zyzzyva_lexicon(RackFile), load_zyzzyva_lexicon(g)).value :
            g \in {BatFile, PointsFile}}

PatChars == {"a", "?", "_", ".", "("}

RackExample == <<"C", "A", "?">>
RackNoBlank == <<"A", "B">>
FixedExample == <<"_", "O", "_", "_">>
RegexExample == <<"^", "A", ".", "*", "Z", "$">>

ExamplePatterns == {RackExample, RackNoBlank, FixedExample, RegexExample}

Patterns == SeqsUpTo(PatChars, MaxPatLen) \cup ExamplePatterns

\* scrabble_df = scrabble_df.match(pattern), then another pattern is asked
assign ==
    /\ op = "match"
    /\ err = "none"
    /\ df' = ret
    /\ pattern' \in ExamplePatterns \cup {<<"_", "_">>}
    /\ ret' = None
    /\ err' = "none"
    /\ op' = "assign"
    /\ UNCHANGED <<cswFile, nwlFile, CSW, NWL, data>>

\* loader.CSW.match(pattern), loader.NWL.match(pattern) or
\* loader.data.match(pattern), on a lexicon that was read from a file
match_loaded ==
    \E t \in {CSW, NWL, data} :
        /\ t # None
        /\ t.cols # {}
        /\ \E q \in LoaderQueries : call_match(t, q)

----------------------------------------------------------------------------
(* The specifications. *)

\* the Loader, from its construction on
Init ==
    /\ cswFile \in CswFiles
    /\ nwlFile \in NwlFiles
    /\ Loader_init
    /\ df = None
    /\ pattern = <<>>
    /\ ret = None
    /\ op = "init"
    /\ err = "none"

Next ==
    \/ load_csw
    \/ load_nwl
    \/ create_merged
    \/ load_merged
    \/ match_loaded

Spec == Init /\ [][Next]_vars

\* a table and the queries on it
InitTable ==
    /\ cswFile = MissingFile
    /\ nwlFile = MissingFile
    /\ Loader_init
    /\ df \in TableInit
    /\ pattern \in Patterns
    /\ ret = None
    /\ op = "init"
    /\ err = "none"

NextTable ==
    \/ match_df
    \/ add_points_df
    \/ assign

SpecTable == InitTable /\ [][NextTable]_vars

----------------------------------------------------------------------------
(* What the properties are stated with. *)

IsTable(v) == v.tag = "Scrabble"

\* the number of occurrences of c in s
Occurrences(s, c) == Cardinality({i \in 1..Len(s) : s[i] = c})

RECURSIVE SumOf(_)
SumOf(f) ==
    IF DOMAIN f = {} THEN 0
    ELSE LET x == CHOOSE y \in DOMAIN f : TRUE
         IN  f[x] + SumOf([y \in (DOMAIN f) \ {x} |-> f[y]])

\* the summed deficit of a word against a rack, both uppercased: the sum
\* over the letters of the word (any other letter has no deficit)
Deficit(word, rack) ==
    SumOf([L \in {upper_char(word[i]) : i \in 1..Len(word)} |->
             LET d == Occurrences(upper(word), L) - Occurrences(upper(rack), L)
             IN  IF d > 0 THEN d ELSE 0])

\* a is b with some elements left out
RECURSIVE IsSubSeq(_, _)
IsSubSeq(a, b) ==
    IF a = <<>> THEN TRUE
    ELSE IF b = <<>> THEN FALSE
    ELSE IF Head(a) = Head(b) THEN IsSubSeq(Tail(a), Tail(b))
    ELSE IsSubSeq(a, Tail(b))

\* no two rows of t have the same word
NoRepeat(t) ==
    \A i, j \in 1..Len(t.rows) : i # j => t.rows[i].word # t.rows[j].word

IsLetter(c) ==
    \E i \in 1..Len(UpperCase) : c = UpperCase[i] \/ c = LowerCase[i]

IsUpperLetter(c) == \E i \in 1..Len(UpperCase) : c = UpperCase[i]

\* the word of a raw line: its first run of characters that are no space
LineWord(line) ==
    LET l == lstrip(line, Whitespace)
        n == IF contains(l, " ") THEN find(l, " ") - 1 ELSE Len(l)
    IN  SubSeq(l, 1, n)

\* the words of the lines of a file that are not blank, in order
RECURSIVE LineWords(_)
LineWords(lines) ==
    IF lines = <<>> THEN <<>>
    ELSE (IF LineWord(Head(lines)) = <<>> THEN <<>> ELSE <<LineWord(Head(lines))>>)
         \o LineWords(Tail(lines))

CAT == <<"C", "A", "T">>
CAB == <<"C", "A", "B">>
DOG == <<"D", "O", "G">>
BOAT == <<"B", "O", "A", "T">>
OATS == <<"O", "A", "T", "S">>
ROOM == <<"R", "O", "O", "M">>

----------------------------------------------------------------------------
(* The properties. *)

C2_AsStated ==
    (/\ op = "match"
     /\ contains(pattern, "_")
     /\ err = "none"
     /\ \A w \in keys(df) : \A i \in 1..Len(w) : IsUpperLetter(w[i])) =>
        ret.rows = SelectSeq(df.rows,
            LAMBDA r :
                /\ Len(r.word) = Len(pattern)
                /\ \A i \in 1..Len(pattern) :
                        pattern[i] = "_" \/ upper_char(pattern[i]) = upper_char(r.word[i]))

\* C2, amended: when the other characters of the pattern are all letters,
\* match returns exactly the words of the pattern's length that equal the
\* uppercased pattern at every position that is not '_'.
C2_FixedLetters ==
    (/\ op = "match"
     /\ contains(pattern, "_")
     /\ \A i \in 1..Len(pattern) : pattern[i] = "_" \/ IsLetter(pattern[i])) =>
        /\ err = "none"
        /\ ret.rows = SelectSeq(df.rows,
                LAMBDA r :
                    /\ Len(r.word) = Len(pattern)
                    /\ \A i \in 1..Len(pattern) :
                            pattern[i] = "_" \/ upper_char(pattern[i]) = r.word[i])

\* '_O__' on {BOAT, OATS, ROOM} has returned {BOAT, ROOM}
C2_Witness ==
    /\ op = "match"
    /\ pattern = FixedExample
    /\ keys(df) = {BOAT, OATS, ROOM}
    /\ keys(ret) = {BOAT, ROOM}

\* C3: match('^A.*Z$') returns exactly the words that start with 'A' and
\* end with 'Z'.
C3_RegexMatch ==
    (op = "match" /\ pattern = RegexExample) =>
        /\ err = "none"
        /\ ret.rows = SelectSeq(df.rows,
                LAMBDA r : r.word # <<>> /\ Head(r.word) = "A"
                           /\ r.word[Len(r.word)] = "Z")

\* C4: a match call leaves the table it is called on as it was, and what
\* it returns is that table with some rows left out: the same columns and
\* display projection, every row a row of the table with the same values.
C4_MatchReadOnly ==
    [][op' = "match" =>
          /\ df' = df
          /\ err' = "none" =>
                /\ IsTable(ret')
                /\ ret'.cols = df.cols
                /\ ret'.display_columns = df.display_columns
                /\ IsSubSeq(ret'.rows, df.rows)]_vars

\* a match on a table with points has returned some rows and not all
C4_Witness ==
    /\ op = "match"
    /\ err = "none"
    /\ "points" \in df.cols
    /\ Len(ret.rows) > 0
    /\ Len(ret.rows) < Len(df.rows)

\* C5: match never raises, whatever the pattern.
C5_MatchNeverFails ==
    op = "match" => err = "none" /\ IsTable(ret)

\* a merge has just been made of Loader.CSW and Loader.NWL into Loader.data
Merged == op \in {"create_merged", "load_merged"} /\ err = "none"

\* the definitions the rows of t give the word w; NaN when t has no such row
DefinitionsOf(t, w) ==
    IF w \in keys(t)
    THEN {t.rows[i].vals["definition"] : i \in {j \in 1..Len(t.rows) : t.rows[j].word = w}}
    ELSE {NaN}

\* C6: the words of merge(A, B) are the keys of A or of B; csw_only is true
\* iff the word is a key of A and not of B, nwl_only iff it is a key of B
\* and not of A, and the two are never both true.
C6_MergeFlags ==
    Merged =>
        /\ keys(data) = keys(CSW) \cup keys(NWL)
        /\ \A i \in 1..Len(data.rows) :
              LET r == data.rows[i]
              IN  /\ r.vals["csw_only"] =
                        PyBool(r.word \in keys(CSW) /\ r.word \notin keys(NWL))
                  /\ r.vals["nwl_only"] =
                        PyBool(r.word \in keys(NWL) /\ r.word \notin keys(CSW))
                  /\ ~(r.vals["csw_only"] = PyBool(TRUE) /\ r.vals["nwl_only"] = PyBool(TRUE))

\* a merge has made a word of A only, a word of B only and a word of both
C6_Witness ==
    /\ op = "create_merged"
    /\ err = "none"
    /\ \E i, j, k \in 1..Len(data.rows) :
          /\ data.rows[i].vals["csw_only"] = PyBool(TRUE)
          /\ data.rows[j].vals["nwl_only"] = PyBool(TRUE)
          /\ data.rows[k].vals["csw_only"] = PyBool(FALSE)
          /\ data.rows[k].vals["nwl_only"] = PyBool(FALSE)

\* C7: the merged definition of a word is A's definition when A has one,
\* and B's otherwise; exchanging A and B leaves the set of keys the same.
C7_MergeDefinition ==
    Merged =>
        /\ \A i \in 1..Len(data.rows) :
              LET r == data.rows[i]
              IN  r.vals["definition"] \in
                      {IF a.tag \notin {"None", "NaN"} THEN a ELSE b :
                          a \in DefinitionsOf(CSW, r.word), b \in DefinitionsOf(NWL, r.word)}
        /\ \A w \in keys(data) :
              \A a \in DefinitionsOf(CSW, w) : \A b \in DefinitionsOf(NWL, w) :
                  \E i \in 1..Len(data.rows) :
                      /\ data.rows[i].word = w
                      /\ data.rows[i].vals["definition"] =
                            (IF a.tag \notin {"None", "NaN"} THEN a ELSE b)
        /\ keys(merge_lexicons(NWL, CSW).value) = keys(data)

\* a merge has given a word A defines 'x' and B defines 'z' the definition 'x'
C7_Witness ==
    /\ op = "create_merged"
    /\ err = "none"
    /\ DefinitionsOf(CSW, <<"A">>) = {PyStr(<<"x">>)}
    /\ DefinitionsOf(NWL, <<"A">>) = {PyStr(<<"z">>)}
    /\ DefinitionsOf(data, <<"A">>) = {PyStr(<<"x">>)}

\* C8: create_merged on a Loader of which a lexicon is absent, or was read
\* from a file that could not be read, reports the 'both lexicons must be
\* loaded' error (a ValueError) and leaves Loader.data as it was.
C8_MergePrecondition ==
    [][(/\ op' = "create_merged"
        /\ \/ CSW = None
           \/ NWL = None
           \/ ~cswFile.exists
           \/ ~nwlFile.exists) =>
          (err' = "ValueError" /\ data' = data)]_vars

\* the sum of the points of the characters of a word, uppercased
PointSum(word) ==
    SumOf([i \in 1..Len(word) |->
             IF upper_char(word[i]) \in DOMAIN POINTS_EN
             THEN POINTS_EN[upper_char(word[i])]
             ELSE 0])

\* C9: add_points gives every row the sum of the points of the characters
\* of its word, uppercased, 0 for a character POINTS_EN has not ('CAT'
\* gets 5); it changes no word and no other column, adds and removes no
\* row, and a second call changes nothing.
C9_AddPoints ==
    [][op' = "add_points" =>
          /\ df'.cols = df.cols \cup {"points"}
          /\ df'.display_columns = df.display_columns
          /\ index(df') = index(df)
          /\ \A i \in 1..Len(df.rows) :
                /\ df'.rows[i].vals["points"] = PyInt(PointSum(df.rows[i].word))
                /\ PointSum(df.rows[i].word) >= 0
                /\ df.rows[i].word = CAT => df'.rows[i].vals["points"] = PyInt(5)
                /\ \A c \in df.cols \ {"points"} :
                      df'.rows[i].vals[c] = df.rows[i].vals[c]
          /\ add_points(df') = df']_vars

\* add_points has given 'CAT' 5 points, and 'ca.t' 5 points too
C9_Witness ==
    /\ op = "add_points"
    /\ \E i, j \in 1..Len(df.rows) :
          /\ df.rows[i].word = CAT
          /\ df.rows[i].vals["points"] = PyInt(5)
          /\ df.rows[j].word = <<"c", "a", ".", "t">>
          /\ df.rows[j].vals["points"] = PyInt(5)

\* C10, as stated: no table has two rows with the same word.
C10_AsStated ==
    \A t \in {CSW, NWL, data, ret} : IsTable(t) => NoRepeat(t)

\* C10, amended: a table built from a file has one row for every line that
\* is not blank, in order, repeated words included; a merge of two tables
\* without repeated words, and a match on a table without repeated words,
\* make none.
C10_NoRepeatPreserved ==
    /\ (IsTable(CSW) /\ cswFile.exists) => index(CSW) = LineWords(cswFile.lines)
    /\ (IsTable(NWL) /\ nwlFile.exists) => index(NWL) = LineWords(nwlFile.lines)
    /\ (Merged /\ NoRepeat(CSW) /\ NoRepeat(NWL)) => NoRepeat(data)
    /\ (op = "match" /\ err = "none" /\ NoRepeat(df)) => NoRepeat(ret)

\* a match on a merge of two tables without repeated words, with a word in
\* both, has returned three rows
C10_Witness ==
    /\ op = "match"
    /\ err = "none"
    /\ IsTable(data)
    /\ df = data
    /\ NoRepeat(CSW)
    /\ NoRepeat(NWL)
    /\ keys(CSW) \cap keys(NWL) # {}
    /\ Len(ret.rows) = 3

=============================================================================
